---- MODULE Spec2Model ----
(***************************************************************************)
(* Julia fractal renderer: the export job pipeline of src/main.rs (the     *)
(* controller JuliaGUI, the "render" worker thread and the two mpsc        *)
(* channels between them) and the rendering functions of src/generate.rs   *)
(* (julia, color_iteration, render_julia, render_c).                       *)
(***************************************************************************)
EXTENDS Integers, Sequences, FiniteSets, TLC

\* Largest number of Render jobs the controller submits in one run.
MaxJobs == 3

VARIABLES
    ctl,              \* controller position: running | joining | exited | unwinding | panicked
    waiting,          \* JuliaGUI.waiting
    export_render_ms, \* JuliaGUI.export_render_ms: 0 is None, else the job the last result timed
    sender_alive,     \* JuliaGUI.render_thread: the job Sender has not been dropped
    receiver_alive,   \* JuliaGUI.render_result: the result Receiver has not been dropped
    job_chan,         \* messages in flight on the job channel
    result_chan,      \* messages in flight on the result channel
    next_id,          \* identity of the next Render job (a job is path, options and color)
    sent,             \* history: ids of the Render jobs sent, in order
    received,         \* history: results the poll in update received, in order
    pc,               \* worker position: recv | render | save | send | done | panicked
    cur,              \* the job the worker holds (0: none)
    rendering,        \* the jobs in the Rendering state
    executed,         \* history: jobs whose render_julia call finished, in order
    saved,            \* history: per executed job, whether image.save returned Ok
    recv_err,         \* history: job_receiver.recv() has returned Err
    exit_backlog,     \* history: Render jobs queued or in progress when on_exit sent Exit
    q,                \* the RenderOptions of the render_julia call under way
    color,            \* its color triple
    phase,            \* position of the call: idle | map | rendered | overlaid | input | colored
    finished,         \* the rows the parallel map has finished, in completion order
    image,            \* the raster render_julia returns
    writes,           \* history: put_pixel calls per cell of image
    frame,            \* the raster render_c returns
    iter_in,          \* an iteration count handed to the color choice
    pixel_out         \* the color chosen for it

pipe_vars == <<ctl, waiting, export_render_ms, sender_alive, receiver_alive, job_chan,
               result_chan, next_id, sent, received, pc, cur, rendering, executed,
               saved, recv_err, exit_backlog>>

render_vars == <<q, color, phase, finished, image, writes, frame, iter_in, pixel_out>>

\* What a worker step leaves alone: the controller's fields and the renderer.
ctl_vars == <<ctl, waiting, export_render_ms, sender_alive, receiver_alive, next_id,
              sent, received, exit_backlog, render_vars>>

\* What a controller step leaves alone: the worker's locals and the renderer.
worker_vars == <<pc, cur, rendering, executed, saved, recv_err, render_vars>>

RenderJob(id) == [kind |-> "Render", id |-> id]

ExitJob == [kind |-> "Exit", id |-> 0]

\* JuliaGUI::default and JuliaGUI::new: the channels are empty, the thread is
\* spawned and blocked in recv, waiting is false.
InitPipe ==
    /\ ctl = "running"
    /\ waiting = FALSE
    /\ export_render_ms = 0
    /\ sender_alive = TRUE
    /\ receiver_alive = TRUE
    /\ job_chan = <<>>
    /\ result_chan = <<>>
    /\ next_id = 1
    /\ sent = <<>>
    /\ received = <<>>
    /\ pc = "recv"
    /\ cur = 0
    /\ rendering = {}
    /\ executed = <<>>
    /\ saved = <<>>
    /\ recv_err = FALSE
    /\ exit_backlog = 0

\* The worker's end of the job channel exists until the thread's closure ends.
WorkerAlive == pc \notin {"done", "panicked"}

(***************************************************************************)
(* The render thread, main.rs 128-143.                                     *)
(***************************************************************************)

\* A faulty variant of worker_recv: the newest buffered message is taken and the
\* older ones are discarded.
worker_recv_newest ==
    /\ pc = "recv"
    /\ job_chan # <<>>
    /\ job_chan' = <<>>
    /\ IF job_chan[Len(job_chan)].kind = "Exit"
       THEN /\ pc' = "done"
            /\ UNCHANGED <<cur, rendering>>
       ELSE /\ pc' = "render"
            /\ cur' = job_chan[Len(job_chan)].id
            /\ rendering' = rendering \cup {job_chan[Len(job_chan)].id}
    /\ UNCHANGED <<recv_err, executed, saved, result_chan>>
    /\ UNCHANGED ctl_vars

\* job_receiver.recv(): a buffered message is returned even after the sender
\* is gone; with the buffer empty it blocks while the sender lives and returns
\* Err once it is dropped.  On Err the `if let Ok` body is skipped and the loop
\* comes back to recv.
worker_recv ==
    /\ pc = "recv"
    /\ (job_chan # <<>> \/ ~sender_alive)
    /\ IF job_chan # <<>>
       THEN /\ job_chan' = Tail(job_chan)
            /\ IF Head(job_chan).kind = "Exit"
               THEN /\ pc' = "done"
                    /\ UNCHANGED <<cur, rendering>>
               ELSE /\ pc' = "render"
                    /\ cur' = Head(job_chan).id
                    /\ rendering' = rendering \cup {Head(job_chan).id}
            /\ UNCHANGED recv_err
       ELSE /\ recv_err' = TRUE
            /\ UNCHANGED <<job_chan, pc, cur, rendering>>
    /\ UNCHANGED <<executed, saved, result_chan>>
    /\ UNCHANGED ctl_vars

\* let image = render_julia(&options, color);
worker_render ==
    /\ pc = "render"
    /\ executed' = Append(executed, cur)
    /\ pc' = "save"
    /\ UNCHANGED <<cur, rendering, saved, recv_err, job_chan, result_chan>>
    /\ UNCHANGED ctl_vars

\* A faulty variant of worker_save: image.save(&path).unwrap().
worker_save_unwrap(ok) ==
    /\ pc = "save"
    /\ saved' = Append(saved, ok)
    /\ pc' = IF ok THEN "send" ELSE "panicked"
    /\ UNCHANGED <<cur, rendering, executed, recv_err, job_chan, result_chan>>
    /\ UNCHANGED ctl_vars

\* if let Err(err) = image.save(&path) { println!(..) }: either outcome goes on.
worker_save(ok) ==
    /\ pc = "save"
    /\ saved' = Append(saved, ok)
    /\ pc' = "send"
    /\ UNCHANGED <<cur, rendering, executed, recv_err, job_chan, result_chan>>
    /\ UNCHANGED ctl_vars

\* A faulty variant of worker_send: a result is reported only for a saved image.
worker_send_saved_only ==
    /\ pc = "send"
    /\ result_chan' = IF saved[Len(saved)] THEN Append(result_chan, cur) ELSE result_chan
    /\ pc' = "recv"
    /\ cur' = 0
    /\ rendering' = rendering \ {cur}
    /\ UNCHANGED <<executed, saved, recv_err, job_chan>>
    /\ UNCHANGED ctl_vars

\* result_sender.send(time).unwrap(): the send fails, and the unwrap panics,
\* when the result Receiver has been dropped.  start_time.elapsed() is taken
\* to return Ok: the system clock does not step back during a render.
worker_send ==
    /\ pc = "send"
    /\ IF receiver_alive
       THEN /\ result_chan' = Append(result_chan, cur)
            /\ pc' = "recv"
       ELSE /\ pc' = "panicked"
            /\ UNCHANGED result_chan
    /\ cur' = 0
    /\ rendering' = rendering \ {cur}
    /\ UNCHANGED <<executed, saved, recv_err, job_chan>>
    /\ UNCHANGED ctl_vars

Worker ==
    \/ worker_recv
    \/ worker_render
    \/ \E ok \in BOOLEAN : worker_save(ok)
    \/ worker_send

(***************************************************************************)
(* The controller, main.rs 180-200, 215-225, 345-362, 410-416.             *)
(***************************************************************************)

\* channel.send(RenderJob::Render(..)).expect(..); self.waiting = true;
\* the send fails only when the worker's Receiver is gone.
export_render ==
    /\ IF WorkerAlive
       THEN /\ job_chan' = Append(job_chan, RenderJob(next_id))
            /\ sent' = Append(sent, next_id)
            /\ next_id' = next_id + 1
            /\ waiting' = TRUE
            /\ ctl' = ctl
       ELSE /\ ctl' = "panicked"
            /\ UNCHANGED <<job_chan, sent, next_id, waiting>>

\* A faulty variant of ButtonsEnabled: the export buttons are always enabled.
ButtonsAlwaysEnabled(w) == TRUE

\* ui.add_enabled_ui(!self.waiting, ..)
ButtonsEnabled(w) == ~w

Clicks == {"none", "render"}

\* One frame: the non-blocking poll of the result channel, then the export
\* buttons ("Render"/"Overwrite" and "Render to" both end in export_render).
update(click) ==
    /\ ctl = "running"
    /\ LET got == receiver_alive /\ result_chan # <<>>
           polled_waiting == IF got THEN FALSE ELSE waiting
       IN  /\ result_chan' = IF got THEN Tail(result_chan) ELSE result_chan
           /\ received' = IF got THEN Append(received, Head(result_chan)) ELSE received
           /\ export_render_ms' = IF got THEN Head(result_chan) ELSE export_render_ms
           /\ IF click = "render" /\ ButtonsEnabled(polled_waiting) /\ next_id <= MaxJobs
              THEN export_render
              ELSE /\ waiting' = polled_waiting
                   /\ UNCHANGED <<job_chan, sent, next_id, ctl>>
    /\ UNCHANGED <<sender_alive, receiver_alive, exit_backlog>>
    /\ UNCHANGED worker_vars

\* export_render called directly, without the buttons' gate.
submit_job ==
    /\ ctl = "running"
    /\ next_id <= MaxJobs
    /\ export_render
    /\ UNCHANGED <<export_render_ms, sender_alive, receiver_alive, received, result_chan,
                   exit_backlog>>
    /\ UNCHANGED worker_vars

\* A faulty variant of on_exit_send: on_exit joins without sending Exit.
on_exit_no_signal ==
    /\ ctl = "running"
    /\ ctl' = "joining"
    /\ UNCHANGED <<job_chan, waiting, export_render_ms, sender_alive, receiver_alive,
                   next_id, sent, received, result_chan, exit_backlog>>
    /\ UNCHANGED worker_vars

\* on_exit up to the join: channel.send(RenderJob::Exit).unwrap().
on_exit_send ==
    /\ ctl = "running"
    /\ IF WorkerAlive
       THEN /\ job_chan' = Append(job_chan, ExitJob)
            /\ ctl' = "joining"
       ELSE /\ ctl' = "panicked"
            /\ UNCHANGED job_chan
    /\ exit_backlog' = Len(sent) - Len(saved) + (IF pc = "send" THEN 1 ELSE 0)
    /\ UNCHANGED <<waiting, export_render_ms, sender_alive, receiver_alive, next_id,
                   sent, received, result_chan>>
    /\ UNCHANGED worker_vars

\* render_thread_handle.take().unwrap().join().unwrap(): blocks until the
\* thread has ended; a panicked thread makes join return Err.
on_exit_join ==
    /\ ctl = "joining"
    /\ ~WorkerAlive
    /\ ctl' = IF pc = "done" THEN "exited" ELSE "panicked"
    /\ UNCHANGED <<waiting, export_render_ms, sender_alive, receiver_alive, next_id,
                   sent, received, job_chan, result_chan, exit_backlog>>
    /\ UNCHANGED worker_vars

\* A panic on the controller's thread (save_settings unwraps File::create and
\* write_all) unwinds and drops JuliaGUI field by field: the job Sender first,
\* then the result Receiver.
drop_sender ==
    /\ ctl = "running"
    /\ ctl' = "unwinding"
    /\ sender_alive' = FALSE
    /\ UNCHANGED <<waiting, export_render_ms, receiver_alive, next_id, sent, received,
                   job_chan, result_chan, exit_backlog>>
    /\ UNCHANGED worker_vars

drop_receiver ==
    /\ ctl = "unwinding"
    /\ ctl' = "panicked"
    /\ receiver_alive' = FALSE
    /\ result_chan' = <<>>
    /\ UNCHANGED <<waiting, export_render_ms, sender_alive, next_id, sent, received,
                   job_chan, exit_backlog>>
    /\ UNCHANGED worker_vars

(***************************************************************************)
(* Arithmetic.  The f64 and f32 values of generate.rs are modelled as      *)
(* exact fractions <<numerator, denominator>> in lowest terms.  Every      *)
(* input below is a dyadic fraction small enough for each intermediate     *)
(* value to be exactly representable, so the floating-point operations     *)
(* round nothing and agree with the fractions.                             *)
(***************************************************************************)

Abs(n) == IF n < 0 THEN -n ELSE n

RECURSIVE GCD(_, _)
GCD(a, b) == IF b = 0 THEN a ELSE GCD(b, a % b)

Frac(n, d) ==
    LET s == IF d < 0 THEN -1 ELSE 1
        g == GCD(Abs(n), Abs(d))
    IN  <<(s * n) \div g, (s * d) \div g>>

R(n) == <<n, 1>>

FAdd(a, b) ==
    LET l == (a[2] \div GCD(a[2], b[2])) * b[2]
    IN  Frac(a[1] * (l \div a[2]) + b[1] * (l \div b[2]), l)

FNeg(a) == <<-a[1], a[2]>>

FSub(a, b) == FAdd(a, FNeg(b))

FMul(a, b) == Frac(a[1] * b[1], a[2] * b[2])

FDiv(a, b) == Frac(a[1] * b[2], a[2] * b[1])

FLess(a, b) == a[1] * b[2] < b[1] * a[2]

Min(a, b) == IF a < b THEN a ELSE b

(***************************************************************************)
(* generate.rs                                                             *)
(***************************************************************************)

Range(f) == {f[k] : k \in DOMAIN f}

\* A faulty variant of julia: the escape test is x*x + y*y <= 4.0.
RECURSIVE julia_le(_, _, _, _, _, _)
julia_le(x, y, cx, cy, max_iter, iter) ==
    IF ~FLess(R(4), FAdd(FMul(x, x), FMul(y, y))) /\ iter < max_iter
    THEN julia_le(FAdd(FSub(FMul(x, x), FMul(y, y)), cx),
                  FAdd(FMul(R(2), FMul(x, y)), cy), cx, cy, max_iter, iter + 1)
    ELSE iter

\* fn julia: the loop, entered with iter = 0.
RECURSIVE julia(_, _, _, _, _, _)
julia(x, y, cx, cy, max_iter, iter) ==
    IF FLess(FAdd(FMul(x, x), FMul(y, y)), R(4)) /\ iter < max_iter
    THEN julia(FAdd(FSub(FMul(x, x), FMul(y, y)), cx),
               FAdd(FMul(R(2), FMul(x, y)), cy), cx, cy, max_iter, iter + 1)
    ELSE iter

\* `as u8`: the low eight bits.
AsU8(v) == v % 256

\* u8::saturating_mul
saturating_mul(a, b) == IF a * b > 255 THEN 255 ELSE a * b

\* A faulty variant of color_iteration: the channels wrap (u8::wrapping_mul).
color_iteration_wrapping(iter, col) ==
    LET i == AsU8(Min(iter, 255))
    IN  <<(i * col[1]) % 256, (i * col[2]) % 256, (i * col[3]) % 256>>

color_iteration(iter, col) ==
    LET i == AsU8(Min(iter, 255))
    IN  <<saturating_mul(i, col[1]), saturating_mul(i, col[2]), saturating_mul(i, col[3])>>

\* let fill = match q.fill_style { .. }
fill(opts, col) ==
    IF opts.fill_style = "Black" THEN <<0, 0, 0>> ELSE color_iteration(opts.max_iter, col)

\* if i == q.max_iter { row.push(fill) } else { row.push(color_iteration(i, color)) }
pixel_color(i, opts, col) ==
    IF i = opts.max_iter THEN fill(opts, col) ELSE color_iteration(i, col)

\* ppu = width / unit_width
ppu(opts) == FDiv(R(opts.width), opts.unit_width)

\* sx = (x - width / 2.0) / ppu, sy = (y - height / 2.0) / ppu
plane_x(opts, x) == FDiv(FSub(R(x), FDiv(R(opts.width), R(2))), ppu(opts))

plane_y(opts, y) == FDiv(FSub(R(y), FDiv(R(opts.height), R(2))), ppu(opts))

\* The body of the inner loop of render_julia for pixel (x, y).
render_pixel(opts, col, x, y) ==
    pixel_color(julia(plane_x(opts, x), plane_y(opts, y), opts.cx, opts.cy, opts.max_iter, 0),
                opts, col)

\* The closure of the parallel map: row y, pushed left to right.
render_row(opts, col, y) == [x \in 1..opts.width |-> render_pixel(opts, col, x - 1, y)]

\* RgbImage::new: every pixel zero; no cell written yet.
new_image(w, h) ==
    [px |-> [y \in 1..h |-> [x \in 1..w |-> <<0, 0, 0>>]],
     n  |-> [y \in 1..h |-> [x \in 1..w |-> 0]]]

\* put_pixel(x, y, p), counting the call.
put_pixel(img, x, y, p) ==
    [px |-> [img.px EXCEPT ![y + 1][x + 1] = p],
     n  |-> [img.n EXCEPT ![y + 1][x + 1] = @ + 1]]

\* A faulty variant of collect: the rows are gathered in the order they were finished.
collect_as_finished(done) == [k \in 1..Len(done) |-> done[k].row]

\* .collect::<Vec<_>>() of an indexed parallel iterator: item y of the result
\* is the item the map produced for index y, whenever it was finished.
collect(done) ==
    [k \in 1..Len(done) |-> (CHOOSE d \in Range(done) : d.y = k - 1).row]

\* for (x, i) in row.into_iter().enumerate() { image.put_pixel(x, y, i) }
RECURSIVE put_row(_, _, _, _)
put_row(img, y, row, x) ==
    IF x >= Len(row) THEN img
    ELSE put_row(put_pixel(img, x, y, row[x + 1]), y, row, x + 1)

\* .into_iter().enumerate().for_each(|(y, row)| ..)
RECURSIVE for_each_row(_, _, _)
for_each_row(img, rows, y) ==
    IF y >= Len(rows) THEN img
    ELSE for_each_row(put_row(img, y, rows[y + 1], 0), rows, y + 1)

\* Squared distance of plane point (sx, sy) from (cx, cy).
dist2(sx, sy, cx, cy) ==
    FAdd(FMul(FSub(sx, cx), FSub(sx, cx)), FMul(FSub(sy, cy), FSub(sy, cy)))

\* len < r for the length of a vector, stated on its square.
len_lt(d2, r) == FLess(d2, FMul(r, r))

Marker == <<0, 120, 120>>

White == <<255, 255, 255>>

\* A faulty variant of overlay_pixel: the ring test comes first, so the marker
\* colour is never used.
overlay_pixel_ring_first(opts, img, x, y) ==
    LET d2 == dist2(plane_x(opts, x), plane_y(opts, y), opts.cx, opts.cy)
    IN  IF len_lt(d2, <<4, 100>>) THEN put_pixel(img, x, y, White)
        ELSE IF len_lt(d2, <<3, 100>>) THEN put_pixel(img, x, y, Marker)
        ELSE img

\* The body of the loops of render_c for pixel (x, y).
overlay_pixel(opts, img, x, y) ==
    LET d2 == dist2(plane_x(opts, x), plane_y(opts, y), opts.cx, opts.cy)
    IN  IF len_lt(d2, <<3, 100>>) THEN put_pixel(img, x, y, Marker)
        ELSE IF len_lt(d2, <<4, 100>>) THEN put_pixel(img, x, y, White)
        ELSE img

\* for y in 0..q.height { for x in 0..q.width { .. } }, as one run over the
\* cells in row-major order.
RECURSIVE render_c_from(_, _, _)
render_c_from(opts, img, k) ==
    IF k >= opts.width * opts.height THEN img
    ELSE render_c_from(opts, overlay_pixel(opts, img, k % opts.width, k \div opts.width), k + 1)

render_c(opts, img) == render_c_from(opts, img, 0)

(***************************************************************************)
(* A render_julia call, followed by render_c as in update_preview.         *)
(***************************************************************************)

\* Largest raster height and iteration cap of the rendered inputs.
MaxHeight == 4

MaxIterations == 2

\* Largest iteration cap handed to the color choice alone.
MaxColorIter == 300

FillStyles == {"Black", "Bright"}

\* A 4-unit view on a coarse grid, and a 1/8-unit view (32 pixels per unit)
\* in which the marker of render_c spans several pixels.
CoarseOptions ==
    [width : {4}, height : 1..MaxHeight, unit_width : {R(4)}, max_iter : 1..MaxIterations,
     cx : {R(0), R(-1)}, cy : {R(0), R(1)}, fill_style : FillStyles]

FineOptions ==
    [width : {4}, height : 1..MaxHeight, unit_width : {<<1, 8>>}, max_iter : {1},
     cx : {R(0), <<1, 64>>}, cy : {R(0)}, fill_style : FillStyles]

Colors == {<<0, 0, 0>>, <<12, 5, 10>>, <<255, 0, 16>>}

ColorOptions ==
    [width : {1}, height : {1}, unit_width : {R(4)}, max_iter : {1, 5, 255, 256, MaxColorIter},
     cx : {R(0)}, cy : {R(0)}, fill_style : FillStyles]

Multipliers == {0, 1, 2, 255}

\* No render call is under way.
RenderIdle ==
    /\ q = [width |-> 1, height |-> 1, unit_width |-> R(4), max_iter |-> 1,
            cx |-> R(0), cy |-> R(0), fill_style |-> "Black"]
    /\ color = <<0, 0, 0>>
    /\ phase = "idle"
    /\ finished = <<>>
    /\ image = <<>>
    /\ writes = <<>>
    /\ frame = <<>>
    /\ iter_in = 0
    /\ pixel_out = <<>>

\* render_julia has been entered with options q and a color.
InitRender ==
    /\ q \in CoarseOptions \cup FineOptions
    /\ color \in Colors
    /\ phase = "map"
    /\ finished = <<>>
    /\ image = <<>>
    /\ writes = <<>>
    /\ frame = <<>>
    /\ iter_in = 0
    /\ pixel_out = <<>>

\* The color choice is about to be made for iteration count iter_in.
InitColor ==
    /\ q \in ColorOptions
    /\ color \in Multipliers \X Multipliers \X Multipliers
    /\ iter_in \in 0..q.max_iter
    /\ phase = "input"
    /\ finished = <<>>
    /\ image = <<>>
    /\ writes = <<>>
    /\ frame = <<>>
    /\ pixel_out = <<>>

\* A worker of the pool finishes row y; the rows finish in any order.
row_done(y) ==
    /\ phase = "map"
    /\ \A k \in 1..Len(finished) : finished[k].y # y
    /\ finished' = Append(finished, [y |-> y, row |-> render_row(q, color, y)])
    /\ UNCHANGED <<q, color, phase, image, writes, frame, iter_in, pixel_out>>
    /\ UNCHANGED pipe_vars

\* All rows are in: collect, then the sequential for_each writes the raster.
gather ==
    /\ phase = "map"
    /\ Len(finished) = q.height
    /\ LET img == for_each_row(new_image(q.width, q.height), collect(finished), 0)
       IN  /\ image' = img.px
           /\ writes' = img.n
    /\ phase' = "rendered"
    /\ UNCHANGED <<q, color, finished, frame, iter_in, pixel_out>>
    /\ UNCHANGED pipe_vars

\* frame = render_c(&self.settings, frame) on the raster just rendered.
overlay ==
    /\ phase = "rendered"
    /\ frame' = render_c(q, [px |-> image, n |-> writes]).px
    /\ phase' = "overlaid"
    /\ UNCHANGED <<q, color, finished, image, writes, iter_in, pixel_out>>
    /\ UNCHANGED pipe_vars

\* The color choice of render_julia for one pixel whose iteration count is iter_in.
color_pixel ==
    /\ phase = "input"
    /\ pixel_out' = pixel_color(iter_in, q, color)
    /\ phase' = "colored"
    /\ UNCHANGED <<q, color, finished, image, writes, frame, iter_in>>
    /\ UNCHANGED pipe_vars

vars == <<pipe_vars, render_vars>>

\* The application after JuliaGUI::new, no render call under way.
Init == InitPipe /\ RenderIdle

\* The application: every export goes through the gated buttons.
Next ==
    \/ \E click \in Clicks : update(click)
    \/ on_exit_send
    \/ on_exit_join
    \/ Worker

Spec == Init /\ [][Next]_vars

\* The pipeline driven through its operations, with no gate on submission.
PipeNext ==
    \/ submit_job
    \/ update("none")
    \/ on_exit_send
    \/ on_exit_join
    \/ Worker

PipeSpec == Init /\ [][PipeNext]_vars

\* The worker is a thread of its own and the join is the controller's last
\* call: the scheduler runs each when it can run.
FairPipeSpec == PipeSpec /\ WF_vars(Worker) /\ WF_vars(on_exit_join)

\* The application with the controller's thread allowed to panic.
TeardownNext ==
    \/ Next
    \/ drop_sender
    \/ drop_receiver

TeardownSpec == Init /\ [][TeardownNext]_vars

RenderNext ==
    \/ \E y \in 0..(q.height - 1) : row_done(y)
    \/ gather
    \/ overlay

\* A render_julia call on each of the bounded inputs; the pipeline stays idle.
RenderInit == InitPipe /\ InitRender

RenderSpec == RenderInit /\ [][RenderNext]_vars

\* The color choice on each bounded iteration count, cap, fill style and color.
ColorInit == InitPipe /\ InitColor

ColorSpec == ColorInit /\ [][color_pixel]_vars

(***************************************************************************)
(* Properties of the export job pipeline.                                  *)
(***************************************************************************)

RECURSIVE RenderIds(_)
RenderIds(chan) ==
    IF chan = <<>> THEN <<>>
    ELSE IF Head(chan).kind = "Render" THEN <<Head(chan).id>> \o RenderIds(Tail(chan))
    ELSE RenderIds(Tail(chan))

\* The number of results the worker has put on the result channel.
ResultsPut == Len(saved) - (IF pc = "send" THEN 1 ELSE 0)

C1_Safety ==
    /\ Len(executed) <= Len(sent)
    /\ \A k \in 1..Len(executed) : executed[k] = sent[k]
    /\ sent = executed \o (IF pc = "render" THEN <<cur>> ELSE <<>>) \o RenderIds(job_chan)
    /\ Cardinality(rendering) <= 1

C1_Live == \A i \in 1..MaxJobs : (i \in Range(sent)) ~> (i \in Range(executed))

C2_WorkerExitsCleanly ==
    /\ recv_err => pc = "done"
    /\ pc # "panicked"

C3_Safety ==
    ctl = "exited" =>
        /\ pc = "done"
        /\ job_chan = <<>>
        /\ rendering = {}
        /\ executed = sent
        /\ Len(saved) = Len(sent)

C3_Quiet == [][ctl = "exited" => result_chan' = result_chan]_vars

C3_JoinReturns == (ctl = "joining") ~> (ctl = "exited")

C4_SaveFailureKeepsWorker ==
    \A k \in 1..Len(saved) :
        ~saved[k] =>
            /\ pc # "panicked"
            /\ (pc = "done" => ctl \in {"joining", "exited"})
            /\ (k <= ResultsPut => (received \o result_chan)[k] = sent[k])
            /\ (k < Len(executed) => executed[k + 1] = sent[k + 1])

\* Job 2 has been executed after the save of job 1 failed.
C4_Witness ==
    /\ Len(executed) >= 2
    /\ saved[1] = FALSE
    /\ pc = "recv"

Outstanding == Len(sent) - Len(received)

\* C9: at most one Render job is outstanding (sent, its result not yet received
\* by the poll), and waiting is true exactly when one is.
C9_AtMostOneOutstanding ==
    /\ Outstanding \in {0, 1}
    /\ waiting <=> (Outstanding = 1)

\* A second job is outstanding after the first one's result was received.
C9_Witness ==
    /\ waiting
    /\ Len(sent) = 2
    /\ Len(received) = 1

(***************************************************************************)
(* Properties of the renderer.                                             *)
(***************************************************************************)

Rendered == phase \in {"rendered", "overlaid"}

\* Concrete scenario 1 of the testable properties.
Scenario1 ==
    /\ q.width = 4
    /\ q.height = 4
    /\ q.unit_width = R(4)
    /\ q.max_iter = 1
    /\ q.cx = R(0)
    /\ q.cy = R(0)

\* The non-escape color of scenario 1: color_iteration(1, color) is the color.
Scenario1Fill == IF q.fill_style = "Black" THEN <<0, 0, 0>> ELSE color

\* C6 as stated: in scenario 1 every one of the 16 pixels has the non-escape
\* color of the fill style.
C6_AllPixelsFill ==
    (Rendered /\ Scenario1) =>
        \A y \in 1..4 : \A x \in 1..4 : image[y][x] = Scenario1Fill

\* C6, amended: in scenario 1 the nine pixels of columns 1..3 and rows 1..3
\* have the non-escape color of the fill style, and the seven pixels of column
\* 0 or row 0 (plane coordinate -2, so x*x + y*y >= 4 and the count is 0) are
\* black.
C6_InnerPixelsFill ==
    (Rendered /\ Scenario1) =>
        \A y \in 1..4 : \A x \in 1..4 :
            image[y][x] = IF x >= 2 /\ y >= 2 THEN Scenario1Fill ELSE <<0, 0, 0>>

\* Scenario 1 rendered Bright: the corner is black, the centre has the color.
C6_Witness ==
    /\ phase = "rendered"
    /\ Scenario1
    /\ q.fill_style = "Bright"
    /\ color = <<12, 5, 10>>
    /\ image[1][1] = <<0, 0, 0>>
    /\ image[3][3] = <<12, 5, 10>>

\* min(255, min(i, 255) * m), with no value wrapped modulo 256.
Channel(i, m) ==
    LET p == (IF i < 255 THEN i ELSE 255) * m
    IN  IF p < 255 THEN p ELSE 255

Escaping(i) == <<Channel(i, color[1]), Channel(i, color[2]), Channel(i, color[3])>>

\* C7: for an iteration count i <= max_iter the color chosen is, when
\* i = max_iter, black under Black and the escaping color of max_iter under
\* Bright; otherwise each channel is min(255, min(i, 255) * multiplier), so
\* that i = 0 is black.
C7_PixelColor ==
    phase = "colored" =>
        /\ pixel_out = IF iter_in = q.max_iter
                       THEN (IF q.fill_style = "Black" THEN <<0, 0, 0>>
                             ELSE Escaping(q.max_iter))
                       ELSE Escaping(iter_in)
        /\ (iter_in = 0 /\ q.max_iter # 0) => pixel_out = <<0, 0, 0>>

\* An escaping count above 255 with a product above 255: the channels saturate.
C7_Witness ==
    /\ phase = "colored"
    /\ iter_in = 256
    /\ q.max_iter = MaxColorIter
    /\ color = <<1, 2, 0>>
    /\ pixel_out = <<255, 255, 0>>

\* Squared distance of pixel (x, y) (1-based in the raster) from (cx, cy).
PixelDist2(x, y) == dist2(plane_x(q, x - 1), plane_y(q, y - 1), q.cx, q.cy)

\* C8: render_c returns a raster of the input's dimensions in which a pixel at
\* distance < 0.03 from (cx, cy) is (0,120,120), one at distance in
\* [0.03, 0.04) is white and every other pixel is the input's.
C8_OverlayOnlyNearMarker ==
    phase = "overlaid" =>
        /\ DOMAIN frame = DOMAIN image
        /\ \A y \in DOMAIN image :
            /\ DOMAIN frame[y] = DOMAIN image[y]
            /\ \A x \in DOMAIN image[y] :
                frame[y][x] =
                    IF FLess(PixelDist2(x, y), <<9, 10000>>) THEN <<0, 120, 120>>
                    ELSE IF FLess(PixelDist2(x, y), <<16, 10000>>) THEN <<255, 255, 255>>
                    ELSE image[y][x]

\* An overlaid raster with a marker pixel, a ring pixel and an untouched
\* pixel that is not black.
C8_Witness ==
    /\ phase = "overlaid"
    /\ \E y \in DOMAIN frame : \E x \in DOMAIN frame[y] :
        frame[y][x] = <<0, 120, 120>> /\ image[y][x] # <<0, 120, 120>>
    /\ \E y \in DOMAIN frame : \E x \in DOMAIN frame[y] :
        frame[y][x] = <<255, 255, 255>> /\ image[y][x] # <<255, 255, 255>>
    /\ \E y \in DOMAIN frame : \E x \in DOMAIN frame[y] :
        frame[y][x] = image[y][x] /\ image[y][x] # <<0, 0, 0>>

\* C10: in whatever order the row workers finished, the pixel at (x, y) of the
\* raster is the color computed for pixel (x, y), and each of the width*height
\* cells has been written exactly once.
C10_RowsInIndexOrder ==
    Rendered =>
        /\ DOMAIN image = 1..q.height
        /\ \A y \in 1..q.height :
            /\ DOMAIN image[y] = 1..q.width
            /\ \A x \in 1..q.width :
                /\ image[y][x] = render_pixel(q, color, x - 1, y - 1)
                /\ writes[y][x] = 1

\* The last row finished first, and the first and last rows differ.
C10_Witness ==
    /\ phase = "rendered"
    /\ q.height >= 3
    /\ finished[1].y = q.height - 1
    /\ image[1] # image[q.height]

====
